---- MODULE Spec2Model ----
(***************************************************************************)
(* nextjs-maintenance-mode: the file-based maintenance switch.             *)
(*                                                                         *)
(* The server side (config.js, shipped in dist/) reads public/             *)
(* maintenance.json on every request, validates the decoded value and      *)
(* decides from the enabled flag and the optional time window whether      *)
(* maintenance is active.  proxy.ts gates requests on that decision and    *)
(* the status route returns it together with a reason.                     *)
(*                                                                         *)
(* Node runs the handlers one at a time; the file is edited and the wall   *)
(* clock advances outside the program, at any moment.                      *)
(***************************************************************************)
EXTENDS Integers, Sequences, FiniteSets, TLC

(***************************************************************************)
(* Bounds of the model.                                                    *)
(***************************************************************************)
\* the wall clock runs over the instants 0..MaxClock (milliseconds)
MaxClock == 4

(***************************************************************************)
(* JavaScript values.  A value is a tag and a printed payload; a decoded   *)
(* JSON document additionally carries the four properties the code reads.  *)
(***************************************************************************)
JsVal(t, v) == [t |-> t, v |-> v]
Undef == JsVal("undefined", "")
Null == JsVal("null", "")
Bool(b) == JsVal("boolean", IF b THEN "true" ELSE "false")
Num(n) == JsVal("number", n)
Str(s) == JsVal("string", s)
Nested == JsVal("object", "{}")

\* typeof: null is an "object"
TypeOf(x) == IF x.t = "null" THEN "object"
             ELSE IF x.t = "array" THEN "object"
             ELSE x.t

\* ToBoolean, as used by !x, if (x) and x ? a : b
Truthy(x) == CASE x.t = "undefined" -> FALSE
               [] x.t = "null" -> FALSE
               [] x.t = "boolean" -> x.v = "true"
               [] x.t = "number" -> x.v # "0"
               [] x.t = "string" -> x.v # ""
               [] OTHER -> TRUE

\* a decoded JSON document: a primitive, an array or an object
Doc(t, v, enabled, startTime, endTime, message) ==
    [t |-> t, v |-> v, enabled |-> enabled, startTime |-> startTime,
     endTime |-> endTime, message |-> message]
Prim(x) == Doc(x.t, x.v, Undef, Undef, Undef, Undef)
Obj(enabled, startTime, endTime, message) ==
    Doc("object", "{}", enabled, startTime, endTime, message)

\* the timestamp strings of the model: two well-formed instants, one
\* string that is no date, and the empty string of the sample file
TimeStrings == {"", "soon", "T1", "T3"}

\* Date.prototype.getTime() of an Invalid Date
NaN == -1

\* new Date(string).getTime(): the instant the text denotes, or NaN
DateParse(s) == CASE s = "T1" -> 1
                  [] s = "T3" -> 3
                  [] s = "1970-01-01T00:00:02.500Z" -> 2500
                  [] s = "1970-01-01T01:01:01Z" -> 3661000
                  [] s = "1970-01-02T01:01:01Z" -> 90061000
                  [] s = "1970-01-03T00:00:00Z" -> 172800000
                  [] OTHER -> NaN

\* the relational operators on two time values: false as soon as one is NaN
Lt(a, b) == a # NaN /\ b # NaN /\ a < b
Gt(a, b) == a # NaN /\ b # NaN /\ a > b
IsNaN(a) == a = NaN

(***************************************************************************)
(* The documents the file can hold.                                        *)
(***************************************************************************)
TimeFieldOK == {Undef} \cup {Str(s) : s \in TimeStrings}
MessageOK == {Undef, Str("back soon")}

\* the documents of the declared MaintenanceConfig type
TypedConfigs ==
    {Obj(Bool(e), s, n, m) : e \in BOOLEAN, s \in TimeFieldOK,
                             n \in TimeFieldOK, m \in MessageOK}

\* wrongly typed or missing properties
BadEnabled == {Undef, Null, Str("true"), Num("1")}
BadField == {Null, Num("123"), Bool(TRUE), Nested}
IllTypedObjects ==
    {Obj(e, Undef, Undef, Undef) : e \in BadEnabled}
    \cup {Obj(e, Str("T1"), Str("T3"), Str("back soon")) : e \in BadEnabled}
    \cup {Obj(Bool(TRUE), x, Undef, Undef) : x \in BadField}
    \cup {Obj(Bool(TRUE), Str("T1"), x, Undef) : x \in BadField}
    \cup {Obj(Bool(FALSE), Undef, Undef, x) : x \in BadField}
    \cup {Obj(Bool(TRUE), Str("T1"), Str("T3"), x) : x \in BadField}

NonObjects ==
    {Prim(Null), Prim(Bool(TRUE)), Prim(Bool(FALSE)), Prim(Num("0")),
     Prim(Num("5")), Prim(Str("")), Prim(Str("enabled")),
     Doc("array", "[]", Undef, Undef, Undef, Undef)}

Documents == TypedConfigs \cup IllTypedObjects \cup NonObjects

\* the states of public/maintenance.json: absent, present but unreadable,
\* text that is not JSON, or the JSON text of a document
SourceFile(st, data) == [st |-> st, data |-> data]
Files == {SourceFile(st, Prim(Null)) : st \in {"ENOENT", "EACCES", "garbage"}}
         \cup {SourceFile("json", d) : d \in Documents}

(***************************************************************************)
(* config.js                                                               *)
(***************************************************************************)
SafeDefault == Obj(Bool(FALSE), Undef, Undef, Undef)

\* the validator without its check of message
validateMaintenanceConfig_messageUnchecked(data) ==
    IF ~Truthy(data) \/ TypeOf(data) # "object" THEN FALSE
    ELSE IF TypeOf(data.enabled) # "boolean" THEN FALSE
    ELSE IF data.startTime # Undef /\ TypeOf(data.startTime) # "string" THEN FALSE
    ELSE IF data.endTime # Undef /\ TypeOf(data.endTime) # "string" THEN FALSE
    ELSE TRUE

\* the validator taking an empty message for a missing one and refusing it
validateMaintenanceConfig_messageRequired(data) ==
    IF ~Truthy(data) \/ TypeOf(data) # "object" THEN FALSE
    ELSE IF TypeOf(data.enabled) # "boolean" THEN FALSE
    ELSE IF data.startTime # Undef /\ TypeOf(data.startTime) # "string" THEN FALSE
    ELSE IF data.endTime # Undef /\ TypeOf(data.endTime) # "string" THEN FALSE
    ELSE IF data.message # Undef /\ TypeOf(data.message) # "string" THEN FALSE
    ELSE IF data.message # Undef /\ ~Truthy(data.message) THEN FALSE
    ELSE TRUE

validateMaintenanceConfig(data) ==
    IF ~Truthy(data) \/ TypeOf(data) # "object" THEN FALSE
    ELSE IF TypeOf(data.enabled) # "boolean" THEN FALSE
    ELSE IF data.startTime # Undef /\ TypeOf(data.startTime) # "string" THEN FALSE
    ELSE IF data.endTime # Undef /\ TypeOf(data.endTime) # "string" THEN FALSE
    ELSE IF data.message # Undef /\ TypeOf(data.message) # "string" THEN FALSE
    ELSE TRUE

\* the window check with the end bound looked at only when there is no
\* usable start bound text (an else-if chain)
WindowRun_endAfterElse(config, now) ==
    LET start == DateParse(config.startTime.v)
        end == DateParse(config.endTime.v)
    IN  IF Truthy(config.startTime)
        THEN IF ~IsNaN(start) /\ Lt(now, start)
             THEN [ret |-> FALSE, warned |-> {}]
             ELSE [ret |-> TRUE,
                   warned |-> IF IsNaN(start)
                              THEN {"Invalid startTime format"} ELSE {}]
        ELSE IF Truthy(config.endTime) /\ ~IsNaN(end) /\ Gt(now, end)
        THEN [ret |-> FALSE, warned |-> {}]
        ELSE [ret |-> TRUE,
              warned |-> IF Truthy(config.endTime) /\ IsNaN(end)
                         THEN {"Invalid endTime format"} ELSE {}]

\* the window check with the start comparison turned around
WindowRun_startReversed(config, now) ==
    LET start == DateParse(config.startTime.v)
        end == DateParse(config.endTime.v)
        startWarn == IF Truthy(config.startTime) /\ IsNaN(start)
                     THEN {"Invalid startTime format"} ELSE {}
        endWarn == IF Truthy(config.endTime) /\ IsNaN(end)
                   THEN {"Invalid endTime format"} ELSE {}
    IN  IF Truthy(config.startTime) /\ ~IsNaN(start) /\ Gt(now, start)
        THEN [ret |-> FALSE, warned |-> {}]
        ELSE IF Truthy(config.endTime) /\ ~IsNaN(end) /\ Gt(now, end)
        THEN [ret |-> FALSE, warned |-> startWarn]
        ELSE [ret |-> TRUE, warned |-> startWarn \cup endWarn]

\* the window check that takes a missing endTime for a closed window
WindowRun_endRequired(config, now) ==
    LET start == DateParse(config.startTime.v)
        end == DateParse(config.endTime.v)
        startWarn == IF Truthy(config.startTime) /\ IsNaN(start)
                     THEN {"Invalid startTime format"} ELSE {}
        endWarn == IF Truthy(config.endTime) /\ IsNaN(end)
                   THEN {"Invalid endTime format"} ELSE {}
    IN  IF Truthy(config.startTime) /\ ~IsNaN(start) /\ Lt(now, start)
        THEN [ret |-> FALSE, warned |-> {}]
        ELSE IF ~Truthy(config.endTime)
        THEN [ret |-> FALSE, warned |-> startWarn]
        ELSE IF ~IsNaN(end) /\ Gt(now, end)
        THEN [ret |-> FALSE, warned |-> startWarn]
        ELSE [ret |-> TRUE, warned |-> startWarn \cup endWarn]

\* the window check that closes the window on an unparseable bound
WindowRun_failClosed(config, now) ==
    LET start == DateParse(config.startTime.v)
        end == DateParse(config.endTime.v)
    IN  IF Truthy(config.startTime) /\ (IsNaN(start) \/ Lt(now, start))
        THEN [ret |-> FALSE,
              warned |-> IF IsNaN(start)
                         THEN {"Invalid startTime format"} ELSE {}]
        ELSE IF Truthy(config.endTime) /\ (IsNaN(end) \/ Gt(now, end))
        THEN [ret |-> FALSE,
              warned |-> IF IsNaN(end)
                         THEN {"Invalid endTime format"} ELSE {}]
        ELSE [ret |-> TRUE, warned |-> {}]

\* the window check with the window closing at endTime itself
WindowRun_endExclusive(config, now) ==
    LET start == DateParse(config.startTime.v)
        end == DateParse(config.endTime.v)
        startWarn == IF Truthy(config.startTime) /\ IsNaN(start)
                     THEN {"Invalid startTime format"} ELSE {}
        endWarn == IF Truthy(config.endTime) /\ IsNaN(end)
                   THEN {"Invalid endTime format"} ELSE {}
    IN  IF Truthy(config.startTime) /\ ~IsNaN(start) /\ Lt(now, start)
        THEN [ret |-> FALSE, warned |-> {}]
        ELSE IF Truthy(config.endTime) /\ ~IsNaN(end) /\ ~Lt(now, end)
        THEN [ret |-> FALSE, warned |-> startWarn]
        ELSE [ret |-> TRUE, warned |-> startWarn \cup endWarn]

\* the window check taking every bound that is not undefined for a bound
WindowRun_definedTest(config, now) ==
    LET start == DateParse(config.startTime.v)
        end == DateParse(config.endTime.v)
        startWarn == IF config.startTime # Undef /\ IsNaN(start)
                     THEN {"Invalid startTime format"} ELSE {}
        endWarn == IF config.endTime # Undef /\ IsNaN(end)
                   THEN {"Invalid endTime format"} ELSE {}
    IN  IF config.startTime # Undef /\ ~IsNaN(start) /\ Lt(now, start)
        THEN [ret |-> FALSE, warned |-> {}]
        ELSE IF config.endTime # Undef /\ ~IsNaN(end) /\ Gt(now, end)
        THEN [ret |-> FALSE, warned |-> startWarn]
        ELSE [ret |-> TRUE, warned |-> startWarn \cup endWarn]

\* the window check with the window opening only after startTime
WindowRun_startExclusive(config, now) ==
    LET start == DateParse(config.startTime.v)
        end == DateParse(config.endTime.v)
        startWarn == IF Truthy(config.startTime) /\ IsNaN(start)
                     THEN {"Invalid startTime format"} ELSE {}
        endWarn == IF Truthy(config.endTime) /\ IsNaN(end)
                   THEN {"Invalid endTime format"} ELSE {}
    IN  IF Truthy(config.startTime) /\ ~IsNaN(start) /\ ~Gt(now, start)
        THEN [ret |-> FALSE, warned |-> {}]
        ELSE IF Truthy(config.endTime) /\ ~IsNaN(end) /\ Gt(now, end)
        THEN [ret |-> FALSE, warned |-> startWarn]
        ELSE [ret |-> TRUE, warned |-> startWarn \cup endWarn]

\* one run of isInMaintenanceWindow with the clock at now: the value
\* returned and the console warnings emitted on the way
WindowRun(config, now) ==
    LET start == DateParse(config.startTime.v)
        end == DateParse(config.endTime.v)
        startWarn == IF Truthy(config.startTime) /\ IsNaN(start)
                     THEN {"Invalid startTime format"} ELSE {}
        endWarn == IF Truthy(config.endTime) /\ IsNaN(end)
                   THEN {"Invalid endTime format"} ELSE {}
    IN  IF Truthy(config.startTime) /\ ~IsNaN(start) /\ Lt(now, start)
        THEN [ret |-> FALSE, warned |-> {}]
        ELSE IF Truthy(config.endTime) /\ ~IsNaN(end) /\ Gt(now, end)
        THEN [ret |-> FALSE, warned |-> startWarn]
        ELSE [ret |-> TRUE, warned |-> startWarn \cup endWarn]

isInMaintenanceWindow(config, now) == WindowRun(config, now).ret

\* isMaintenanceActive without the enabled short-circuit
ActiveRun_noSwitch(config, now) ==
    [ret |-> WindowRun(config, now).ret,
     warned |-> WindowRun(config, now).warned, reads |-> 1]

\* one run of isMaintenanceActive: value, warnings, clock reads
ActiveRun(config, now) ==
    IF ~Truthy(config.enabled)
    THEN [ret |-> FALSE, warned |-> {}, reads |-> 0]
    ELSE [ret |-> WindowRun(config, now).ret,
          warned |-> WindowRun(config, now).warned, reads |-> 1]

isMaintenanceActive(config, now) == ActiveRun(config, now).ret

\* the try block returning the decoded document without validating it
TryRead_unvalidated(file, silent) ==
    IF file.st \in {"ENOENT", "EACCES"}
    THEN [threw |-> TRUE, code |-> file.st, value |-> SafeDefault,
          valid |-> FALSE, warned |-> {}]
    ELSE IF file.st = "garbage"
    THEN [threw |-> TRUE, code |-> "SyntaxError", value |-> SafeDefault,
          valid |-> FALSE, warned |-> {}]
    ELSE [threw |-> FALSE, code |-> "", value |-> file.data,
          valid |-> TRUE, warned |-> {}]

\* the body of the try block of readMaintenanceConfig: readFileSync and
\* JSON.parse throw, the validator rejects, or the document is returned
TryRead(file, silent) ==
    IF file.st \in {"ENOENT", "EACCES"}
    THEN [threw |-> TRUE, code |-> file.st, value |-> SafeDefault,
          valid |-> FALSE, warned |-> {}]
    ELSE IF file.st = "garbage"
    THEN [threw |-> TRUE, code |-> "SyntaxError", value |-> SafeDefault,
          valid |-> FALSE, warned |-> {}]
    ELSE IF ~validateMaintenanceConfig(file.data)
    THEN [threw |-> FALSE, code |-> "", value |-> SafeDefault,
          valid |-> FALSE,
          warned |-> IF silent THEN {}
                     ELSE {"Invalid maintenance config structure"}]
    ELSE [threw |-> FALSE, code |-> "", value |-> file.data,
          valid |-> TRUE, warned |-> {}]

\* readMaintenanceConfig with a catch block that swallows only ENOENT
readMaintenanceConfig_rethrow(file, silent) ==
    LET t == TryRead(file, silent)
    IN  IF t.threw
        THEN [raised |-> t.code # "ENOENT", value |-> SafeDefault,
              valid |-> FALSE, warned |-> {}]
        ELSE [raised |-> FALSE, value |-> t.value, valid |-> t.valid,
              warned |-> t.warned]

\* one run of readMaintenanceConfig: whether it raised, the value returned,
\* the console warnings emitted and the validator's verdict, if it ran
readMaintenanceConfig(file, silent) ==
    LET t == TryRead(file, silent)
    IN  IF t.threw
        THEN [raised |-> FALSE, value |-> SafeDefault, valid |-> FALSE,
              warned |-> IF ~silent /\ t.code # "ENOENT"
                         THEN {"Error reading maintenance config"} ELSE {}]
        ELSE [raised |-> FALSE, value |-> t.value, valid |-> t.valid,
              warned |-> t.warned]

\* a reason string: the template and the value interpolated into it
Reason(tpl, arg) == [tpl |-> tpl, arg |-> arg]
NoReason == Reason("", "")
MaintenanceStatus(active, config, reason) ==
    [active |-> active, config |-> config, reason |-> reason]
NoStatus == MaintenanceStatus(FALSE, Prim(Null), NoReason)

\* getMaintenanceStatus, the enabled = false return
DisabledStatus(config) ==
    MaintenanceStatus(FALSE, config,
                      Reason("Maintenance is disabled (enabled: false)", ""))

\* the final return testing endTime against undefined
ActiveStatus_definedTest(config) ==
    MaintenanceStatus(TRUE, config,
        IF config.endTime # Undef
        THEN Reason("Maintenance active until ${config.endTime}",
                    config.endTime.v)
        ELSE Reason("Maintenance active (no end time specified)", ""))

\* getMaintenanceStatus, the final return
ActiveStatus(config) ==
    MaintenanceStatus(TRUE, config,
        IF Truthy(config.endTime)
        THEN Reason("Maintenance active until ${config.endTime}",
                    config.endTime.v)
        ELSE Reason("Maintenance active (no end time specified)", ""))

\* the reason derivation with an inclusive start comparison
DeriveStatus_inclusive(config, now) ==
    IF Truthy(config.startTime) /\ ~Lt(DateParse(config.startTime.v), now)
       /\ ~IsNaN(DateParse(config.startTime.v))
    THEN MaintenanceStatus(FALSE, config,
            Reason("Maintenance hasn't started yet (starts at ${config.startTime})",
                   config.startTime.v))
    ELSE IF Truthy(config.endTime) /\ Lt(DateParse(config.endTime.v), now)
    THEN MaintenanceStatus(FALSE, config,
            Reason("Maintenance has ended (ended at ${config.endTime})",
                   config.endTime.v))
    ELSE ActiveStatus(config)

\* the reason derivation testing the end bound before the start bound
DeriveStatus_endFirst(config, now) ==
    IF Truthy(config.endTime) /\ Lt(DateParse(config.endTime.v), now)
    THEN MaintenanceStatus(FALSE, config,
            Reason("Maintenance has ended (ended at ${config.endTime})",
                   config.endTime.v))
    ELSE IF Truthy(config.startTime) /\ Gt(DateParse(config.startTime.v), now)
    THEN MaintenanceStatus(FALSE, config,
            Reason("Maintenance hasn't started yet (starts at ${config.startTime})",
                   config.startTime.v))
    ELSE ActiveStatus(config)

\* getMaintenanceStatus, the block entered when the window check returned
\* false, with its own clock read now
DeriveStatus(config, now) ==
    IF Truthy(config.startTime) /\ Gt(DateParse(config.startTime.v), now)
    THEN MaintenanceStatus(FALSE, config,
            Reason("Maintenance hasn't started yet (starts at ${config.startTime})",
                   config.startTime.v))
    ELSE IF Truthy(config.endTime) /\ Lt(DateParse(config.endTime.v), now)
    THEN MaintenanceStatus(FALSE, config,
            Reason("Maintenance has ended (ended at ${config.endTime})",
                   config.endTime.v))
    ELSE ActiveStatus(config)

(***************************************************************************)
(* proxy.ts                                                                *)
(***************************************************************************)
MaintenancePrefix == <<"/", "m", "a", "i", "n", "t", "e", "n", "a", "n", "c", "e">>
ApiPrefix == <<"/", "a", "p", "i", "/">>
NextPrefix == <<"/", "_", "n", "e", "x", "t", "/">>

\* String.prototype.startsWith and includes, on sequences of characters
StartsWith(s, p) == Len(s) >= Len(p) /\ SubSeq(s, 1, Len(p)) = p
Includes(s, c) == \E i \in 1..Len(s) : s[i] = c

Pathnames ==
    {<<"/">>, <<"/", "h", "o", "m", "e">>, MaintenancePrefix,
     ApiPrefix \o <<"s">>, NextPrefix \o <<"s">>,
     <<"/", "a", ".", "j", "s">>}

\* the skip condition without the maintenance page itself
Exempt_pageNotSkipped(pathname) ==
    \/ StartsWith(pathname, ApiPrefix)
    \/ StartsWith(pathname, NextPrefix)
    \/ Includes(pathname, ".")

Exempt(pathname) ==
    \/ StartsWith(pathname, MaintenancePrefix)
    \/ StartsWith(pathname, ApiPrefix)
    \/ StartsWith(pathname, NextPrefix)
    \/ Includes(pathname, ".")

(***************************************************************************)
(* client.ts: the countdown calculator                                     *)
(***************************************************************************)
Max(a, b) == IF a >= b THEN a ELSE b

\* a result of calculateTimeRemaining: null, or the breakdown
TimeRemaining(days, hours, minutes, seconds, totalSeconds) ==
    [isNull |-> FALSE, days |-> days, hours |-> hours, minutes |-> minutes,
     seconds |-> seconds, totalSeconds |-> totalSeconds]
NullRemaining ==
    [isNull |-> TRUE, days |-> 0, hours |-> 0, minutes |-> 0, seconds |-> 0,
     totalSeconds |-> 0]

\* the whole seconds from now to end, rounded to the nearest second
TotalSeconds_rounded(end, now) == Max(0, (end - now + 500) \div 1000)

\* Math.max(0, Math.floor((end.getTime() - now.getTime()) / 1000))
TotalSeconds(end, now) == Max(0, (end - now) \div 1000)

\* the breakdown with the hours not reduced by the days
Breakdown_hoursOfTotal(totalSeconds) ==
    TimeRemaining(totalSeconds \div (24 * 60 * 60),
                  totalSeconds \div (60 * 60),
                  (totalSeconds % (60 * 60)) \div 60,
                  totalSeconds % 60,
                  totalSeconds)

\* the days, hours, minutes and seconds of a positive number of seconds
Breakdown(totalSeconds) ==
    TimeRemaining(totalSeconds \div (24 * 60 * 60),
                  (totalSeconds % (24 * 60 * 60)) \div (60 * 60),
                  (totalSeconds % (60 * 60)) \div 60,
                  totalSeconds % 60,
                  totalSeconds)

\* calculateTimeRemaining giving up on an endTime that is not ahead
CalcRun_pastIsNull(endTime, now) ==
    IF ~Truthy(endTime)
    THEN [ret |-> NullRemaining, warned |-> {}]
    ELSE IF IsNaN(DateParse(endTime.v))
    THEN [ret |-> NullRemaining, warned |-> {"Invalid endTime format"}]
    ELSE IF TotalSeconds(DateParse(endTime.v), now) = 0
    THEN [ret |-> NullRemaining, warned |-> {}]
    ELSE [ret |-> Breakdown(TotalSeconds(DateParse(endTime.v), now)),
          warned |-> {}]

\* one run of calculateTimeRemaining(endTime) with the clock at now: the
\* value returned and the console warnings emitted
CalcRun(endTime, now) ==
    IF ~Truthy(endTime)
    THEN [ret |-> NullRemaining, warned |-> {}]
    ELSE IF IsNaN(DateParse(endTime.v))
    THEN [ret |-> NullRemaining, warned |-> {"Invalid endTime format"}]
    ELSE IF TotalSeconds(DateParse(endTime.v), now) = 0
    THEN [ret |-> TimeRemaining(0, 0, 0, 0, 0), warned |-> {}]
    ELSE [ret |-> Breakdown(TotalSeconds(DateParse(endTime.v), now)),
          warned |-> {}]

calculateTimeRemaining(endTime, now) == CalcRun(endTime, now).ret

\* String(n) of a non-negative integer, as the characters of its decimal
\* numeral
DigitChars == <<"0", "1", "2", "3", "4", "5", "6", "7", "8", "9">>
RECURSIVE Decimal(_)
Decimal(n) ==
    IF n < 10 THEN <<DigitChars[n + 1]>>
    ELSE Decimal(n \div 10) \o <<DigitChars[(n % 10) + 1]>>

\* formatCountdown keeping the seconds next to the days
formatCountdown_secondsKept(timeRemaining) ==
    IF timeRemaining.isNull THEN <<>>
    ELSE IF timeRemaining.days > 0
    THEN Decimal(timeRemaining.days) \o <<"d", " ">>
         \o Decimal(timeRemaining.hours) \o <<"h", " ">>
         \o Decimal(timeRemaining.minutes) \o <<"m", " ">>
         \o Decimal(timeRemaining.seconds) \o <<"s">>
    ELSE IF timeRemaining.hours > 0
    THEN Decimal(timeRemaining.hours) \o <<"h", " ">>
         \o Decimal(timeRemaining.minutes) \o <<"m">>
    ELSE IF timeRemaining.minutes > 0
    THEN Decimal(timeRemaining.minutes) \o <<"m", " ">>
         \o Decimal(timeRemaining.seconds) \o <<"s">>
    ELSE Decimal(timeRemaining.seconds) \o <<"s">>

\* formatCountdown(timeRemaining): the string returned, as its characters
formatCountdown(timeRemaining) ==
    IF timeRemaining.isNull THEN <<>>
    ELSE IF timeRemaining.days > 0
    THEN Decimal(timeRemaining.days) \o <<"d", " ">>
         \o Decimal(timeRemaining.hours) \o <<"h", " ">>
         \o Decimal(timeRemaining.minutes) \o <<"m">>
    ELSE IF timeRemaining.hours > 0
    THEN Decimal(timeRemaining.hours) \o <<"h", " ">>
         \o Decimal(timeRemaining.minutes) \o <<"m">>
    ELSE IF timeRemaining.minutes > 0
    THEN Decimal(timeRemaining.minutes) \o <<"m", " ">>
         \o Decimal(timeRemaining.seconds) \o <<"s">>
    ELSE Decimal(timeRemaining.seconds) \o <<"s">>

(***************************************************************************)
(* State.                                                                  *)
(***************************************************************************)
VARIABLES
    file,    \* public/maintenance.json as it is on disk now
    clock,   \* the wall clock
    call,    \* the handler in progress, or the last one completed
    calc,    \* a call of calculateTimeRemaining in the browser
    nowMs,     \* the browser's clock, in milliseconds
    cd,      \* an instance of useCountdown
    net,     \* whether the status endpoint can be reached from the browser
    poll     \* an instance of useMaintenanceStatus and the page it is in

clientVars == <<calc, nowMs, cd, net, poll>>
vars == <<file, clock, call, calc, nowMs, cd, net, poll>>

\* no call of calculateTimeRemaining
NoCalc ==
    [pc |-> "idle", endTime |-> Undef, now |-> 0, out |-> NullRemaining,
     warned |-> {}, text |-> <<>>]

\* useCountdown not mounted.  timers are the interval timers that are
\* set and not cleared, each with the endTime its callback closes over and
\* the time left until it fires; interval is the timer the cleanup of the
\* current effect clears (0: the effect returned no cleanup)
NoCountdown ==
    [mounted |-> FALSE, endTime |-> Undef, timeRemaining |-> NullRemaining,
     timers |-> {}, interval |-> 0, nextId |-> 1, last |-> "none"]

\* an optional property of an options object: given with a value, or absent
Given(v) == [given |-> TRUE, v |-> v]
AbsentNumber == [given |-> FALSE, v |-> 0]
AbsentBoolean == [given |-> FALSE, v |-> FALSE]
\* a destructuring default: const { x = d } = options
OrDefault(opt, d) == IF opt.given THEN opt.v ELSE d

\* the options a caller passes to useMaintenanceStatus
Options(pollInterval, autoPoll) ==
    [pollInterval |-> pollInterval, autoPoll |-> autoPoll]

\* useMaintenanceStatus not mounted.  inflight are the fetches issued and
\* not yet settled, in the order of issue, the first behind of them issued
\* before the fetch whose response is the stored status; elapsed is the
\* time since the effect last ran and the n... count what happened since
NoPoll ==
    [mounted |-> FALSE, options |-> Options(Undef, Undef),
     pollInterval |-> 0, autoPoll |-> FALSE,
     hasStatus |-> FALSE, status |-> NoStatus, isLoading |-> TRUE,
     error |-> "", timers |-> {}, interval |-> 0, nextId |-> 1,
     inflight |-> <<>>, elapsed |-> 0, nImmediate |-> 0, nPolls |-> 0,
     nRefetch |-> 0, nIssued |-> 0, navigated |-> FALSE, behind |-> 0]

\* the browser does nothing
ClientIdle ==
    /\ calc = NoCalc /\ nowMs = 0 /\ cd = NoCountdown
    /\ net = "up" /\ poll = NoPoll

NoCall ==
    [pc |-> "idle", op |-> "none", pathname |-> <<>>, silent |-> FALSE,
     src |-> SourceFile("ENOENT", Prim(Null)), raised |-> FALSE,
     valid |-> FALSE,
     config |-> Prim(Null), reads |-> 0, now1 |-> 0, now |-> 0,
     inWindow |-> FALSE, active |-> FALSE, warned |-> {},
     status |-> NoStatus, decision |-> "none", via |-> "none",
     location |-> <<>>]

Init ==
    /\ file \in Files
    /\ clock = 0
    /\ call = NoCall
    /\ ClientIdle

\* Node runs one handler at a time, each to completion; only the status
\* query, which reads the clock twice, is observable half-way
Busy == call.pc = "derive"

(***************************************************************************)
(* The environment: the operator edits the file, time passes.  An edit     *)
(* while a status query is between its two clock reads is not modelled     *)
(* apart: the query has read the file already, so the edit commutes past   *)
(* the end of the query.                                                   *)
(***************************************************************************)
WriteFile ==
    /\ ~Busy
    /\ \E f \in Files : f # file /\ file' = f
    /\ call' = NoCall
    /\ UNCHANGED clock
    /\ UNCHANGED clientVars

Tick ==
    /\ clock < MaxClock
    /\ clock' = clock + 1
    /\ call' = IF Busy THEN call ELSE NoCall
    /\ UNCHANGED file
    /\ UNCHANGED clientVars

(***************************************************************************)
(* The handlers.                                                           *)
(***************************************************************************)
\* a direct call of readMaintenanceConfig('public/maintenance.json', {silent})
ReadConfig ==
    /\ ~Busy
    /\ \E silent \in BOOLEAN :
         LET r == readMaintenanceConfig(file, silent)
         IN  call' = [NoCall EXCEPT !.pc = "done", !.op = "read",
                         !.silent = silent, !.src = file,
                         !.raised = r.raised, !.valid = r.valid,
                         !.config = r.value, !.warned = r.warned]
    /\ UNCHANGED <<file, clock>>
    /\ UNCHANGED clientVars

\* the proxy serving its reads from the configuration of the previous
\* gated request, when there is one, instead of from the file
ProxyCall_cached(pathname, via) ==
    IF Exempt(pathname)
    THEN [NoCall EXCEPT !.pc = "done", !.op = "proxy", !.via = via,
             !.pathname = pathname, !.decision = "next"]
    ELSE LET cached == call.op = "proxy" /\ call.pc = "done"
                       /\ ~Exempt(call.pathname)
             r == IF cached
                  THEN [raised |-> FALSE, value |-> call.config,
                        valid |-> call.valid, warned |-> {}]
                  ELSE readMaintenanceConfig(file, TRUE)
             a == ActiveRun(r.value, clock)
         IN  [NoCall EXCEPT !.pc = "done", !.op = "proxy", !.via = via,
                 !.pathname = pathname, !.silent = TRUE,
                 !.src = IF cached THEN call.src ELSE file,
                 !.valid = r.valid,
                 !.config = r.value, !.reads = a.reads, !.now1 = clock,
                 !.now = clock, !.active = a.ret,
                 !.inWindow = IF a.reads = 0 THEN FALSE
                              ELSE WindowRun(r.value, clock).ret,
                 !.warned = r.warned \cup a.warned,
                 !.decision = IF a.ret THEN "redirect /maintenance"
                              ELSE "next",
                 !.location = IF a.ret THEN MaintenancePrefix ELSE <<>>]

\* one run of proxy(request) for a pathname, reached by a request of the
\* browser or by the browser following a redirect
ProxyCall(pathname, via) ==
    IF Exempt(pathname)
    THEN [NoCall EXCEPT !.pc = "done", !.op = "proxy", !.via = via,
             !.pathname = pathname, !.decision = "next"]
    ELSE LET r == readMaintenanceConfig(file, TRUE)
             a == ActiveRun(r.value, clock)
         IN  IF r.raised
             THEN [NoCall EXCEPT !.pc = "done", !.op = "proxy", !.via = via,
                      !.pathname = pathname, !.silent = TRUE,
                      !.src = file, !.raised = TRUE,
                      !.decision = "throw"]
             ELSE [NoCall EXCEPT !.pc = "done", !.op = "proxy", !.via = via,
                      !.pathname = pathname, !.silent = TRUE,
                      !.src = file, !.valid = r.valid,
                      !.config = r.value, !.reads = a.reads, !.now1 = clock,
                      !.now = clock, !.active = a.ret,
                      !.inWindow = IF a.reads = 0 THEN FALSE
                                   ELSE WindowRun(r.value, clock).ret,
                      !.warned = r.warned \cup a.warned,
                      !.decision = IF a.ret THEN "redirect /maintenance"
                                   ELSE "next",
                      !.location = IF a.ret THEN MaintenancePrefix ELSE <<>>]

\* proxy(request)
Proxy ==
    /\ ~Busy
    /\ \E pathname \in Pathnames : call' = ProxyCall(pathname, "request")
    /\ UNCHANGED <<file, clock>>
    /\ UNCHANGED clientVars

\* the browser follows the redirect it was answered with: proxy(request)
\* for the redirect's location
FollowRedirect ==
    /\ ~Busy
    /\ call.pc = "done" /\ call.op = "proxy"
    /\ call.location # <<>>
    /\ call' = ProxyCall(call.location, "redirect")
    /\ UNCHANGED <<file, clock>>
    /\ UNCHANGED clientVars

\* getMaintenanceStatus('public/maintenance.json') up to and including the
\* window check
GetStatusStart ==
    /\ ~Busy
    /\ LET r == readMaintenanceConfig(file, FALSE)
           config == r.value
           w == WindowRun(config, clock)
           base == [NoCall EXCEPT !.op = "status", !.src = file,
                       !.valid = r.valid, !.config = config,
                       !.warned = r.warned]
       IN  IF r.raised
           THEN call' = [base EXCEPT !.pc = "done", !.raised = TRUE,
                            !.config = Prim(Null)]
           ELSE IF ~Truthy(config.enabled)
           THEN call' = [base EXCEPT !.pc = "done",
                            !.status = DisabledStatus(config)]
           ELSE IF w.ret
           THEN call' = [base EXCEPT !.pc = "done", !.reads = 1,
                            !.now1 = clock, !.now = clock,
                            !.inWindow = TRUE, !.active = TRUE,
                            !.warned = r.warned \cup w.warned,
                            !.status = ActiveStatus(config)]
           ELSE call' = [base EXCEPT !.pc = "derive", !.reads = 1,
                            !.now1 = clock, !.now = clock,
                            !.inWindow = FALSE,
                            !.warned = r.warned \cup w.warned]
    /\ UNCHANGED <<file, clock>>
    /\ UNCHANGED clientVars

\* getMaintenanceStatus from the second clock read to the return
GetStatusDerive ==
    /\ call.pc = "derive"
    /\ LET s == DeriveStatus(call.config, clock)
       IN  call' = [call EXCEPT !.pc = "done", !.reads = 2, !.now = clock,
                       !.active = s.active, !.status = s]
    /\ UNCHANGED <<file, clock>>
    /\ UNCHANGED clientVars

Next ==
    \/ WriteFile
    \/ Tick
    \/ ReadConfig
    \/ Proxy
    \/ FollowRedirect
    \/ GetStatusStart
    \/ GetStatusDerive

Spec == Init /\ [][Next]_vars

(***************************************************************************)
(* The same server over a handful of files, with the record of the last    *)
(* request kept while the file is edited and time passes, so that          *)
(* successive requests can be compared.                                    *)
(***************************************************************************)
LiveFiles ==
    {SourceFile("ENOENT", Prim(Null)),
     SourceFile("json", Obj(Bool(FALSE), Str("T1"), Str("T3"), Undef)),
     SourceFile("json", Obj(Bool(TRUE), Undef, Undef, Undef)),
     SourceFile("json", Obj(Bool(TRUE), Str("T1"), Str("T3"), Undef)),
     SourceFile("json", Obj(Bool(TRUE), Str("T3"), Str("T3"), Undef)),
     SourceFile("json", Obj(Bool(TRUE), Str("soon"), Str("T1"), Undef))}

InitLive ==
    /\ file \in LiveFiles
    /\ clock = 0
    /\ call = NoCall
    /\ ClientIdle

EditFile ==
    /\ \E f \in LiveFiles : f # file /\ file' = f
    /\ UNCHANGED <<clock, call>>
    /\ UNCHANGED clientVars

Advance ==
    /\ clock < MaxClock
    /\ clock' = clock + 1
    /\ UNCHANGED <<file, call>>
    /\ UNCHANGED clientVars

NextLive ==
    \/ EditFile
    \/ Advance
    \/ Proxy
    \/ FollowRedirect

SpecLive == InitLive /\ [][NextLive]_vars

(***************************************************************************)
(* calculateTimeRemaining applied to an endTime at an instant of the       *)
(* browser's clock.                                                        *)
(***************************************************************************)
CalcEndTimes ==
    {Undef, Str(""), Str("soon"), Str("1970-01-01T00:00:02.500Z"),
     Str("1970-01-01T01:01:01Z"), Str("1970-01-02T01:01:01Z"),
     Str("1970-01-03T00:00:00Z")}

CalcNows ==
    {0, 1, 500, 1000, 1500, 1501, 2500, 3000, 61000, 3601000, 3602000,
     3660000, 3661000, 3662000, 86400000, 86401000, 172800000}

InitCalc ==
    /\ file = SourceFile("ENOENT", Prim(Null))
    /\ clock = 0
    /\ call = NoCall
    /\ \E endTime \in CalcEndTimes, t \in CalcNows :
          calc = [NoCalc EXCEPT !.pc = "call", !.endTime = endTime,
                                !.now = t]
    /\ nowMs = 0
    /\ cd = NoCountdown
    /\ net = "up"
    /\ poll = NoPoll

Calculate ==
    /\ calc.pc = "call"
    /\ LET r == CalcRun(calc.endTime, calc.now)
       IN  calc' = [calc EXCEPT !.pc = "done", !.out = r.ret,
                                !.warned = r.warned]
    /\ UNCHANGED <<file, clock, call, nowMs, cd, net, poll>>

\* the page renders formatCountdown of what was calculated
Format ==
    /\ calc.pc = "done"
    /\ calc' = [calc EXCEPT !.pc = "shown",
                            !.text = formatCountdown(calc.out)]
    /\ UNCHANGED <<file, clock, call, nowMs, cd, net, poll>>

NextCalc ==
    \/ Calculate
    \/ Format

SpecCalc == InitCalc /\ [][NextCalc]_vars

(***************************************************************************)
(* client.ts: useCountdown, mounted by a component that passes it an       *)
(* endTime and may pass another one on a later render.                     *)
(***************************************************************************)
\* setInterval(..., 1000)
CountdownPeriod == 1000

\* the browser's clock advances by at most Quantum at a time and is not
\* told apart beyond BrowserHorizon, where every endTime of the model is
\* more than a second past
Quantum == 500
BrowserHorizon == 4000
\* the number of times the effect of one hook runs in the model
MaxEffects == 3

Min(a, b) == IF a <= b THEN a ELSE b

CountdownEndTimes ==
    {Undef, Str(""), Str("soon"), Str("T3"), Str("1970-01-01T00:00:02.500Z")}

\* clearInterval(id)
ClearInterval(timers, id) == {t \in timers : t.id # id}

\* the effect of useCountdown for endTime, with the clock at t
CountdownEffect(c, endTime, t) ==
    IF ~Truthy(endTime)
    THEN [c EXCEPT !.endTime = endTime, !.timeRemaining = NullRemaining,
                   !.interval = 0, !.last = "effect"]
    ELSE [c EXCEPT !.endTime = endTime,
                   !.timeRemaining = calculateTimeRemaining(endTime, t),
                   !.timers = c.timers \cup
                      {[id |-> c.nextId, endTime |-> endTime,
                        left |-> CountdownPeriod]},
                   !.interval = c.nextId,
                   !.nextId = c.nextId + 1,
                   !.last = "effect"]

\* the cleanup the effect returned
CountdownCleanup(c) ==
    [c EXCEPT !.timers = ClearInterval(c.timers, c.interval),
              !.interval = 0]

\* the interval callback that goes on ticking at zero
CountdownTickOn_noStop(c, timer, t) ==
    LET remaining == calculateTimeRemaining(timer.endTime, t)
    IN  [c EXCEPT !.timeRemaining = IF c.mounted THEN remaining ELSE @,
                  !.timers = ClearInterval(c.timers, timer.id) \cup
                                {[timer EXCEPT !.left = CountdownPeriod]},
                  !.last = "tick"]

\* the interval callback of a timer that is due, with the clock at t
CountdownTickOn(c, timer, t) ==
    LET remaining == calculateTimeRemaining(timer.endTime, t)
    IN  [c EXCEPT !.timeRemaining = IF c.mounted THEN remaining ELSE @,
                  !.timers =
                     IF ~remaining.isNull /\ remaining.totalSeconds = 0
                     THEN ClearInterval(c.timers, timer.id)
                     ELSE ClearInterval(c.timers, timer.id) \cup
                             {[timer EXCEPT !.left = CountdownPeriod]},
                  !.last = "tick"]

InitCountdown ==
    /\ file = SourceFile("ENOENT", Prim(Null))
    /\ clock = 0
    /\ call = NoCall
    /\ calc = NoCalc
    /\ nowMs \in {0, 1}
    /\ cd = NoCountdown
    /\ net = "up"
    /\ poll = NoPoll

\* the component mounts: useState's initializer, then the effect
MountCountdown ==
    /\ ~cd.mounted
    /\ cd.nextId <= MaxEffects
    /\ \E endTime \in CountdownEndTimes :
          cd' = CountdownEffect(
                   [cd EXCEPT !.mounted = TRUE,
                              !.timeRemaining =
                                 calculateTimeRemaining(endTime, nowMs)],
                   endTime, nowMs)
    /\ UNCHANGED <<file, clock, call, calc, nowMs, net, poll>>

\* the component renders with another endTime: cleanup, then the effect
ChangeEndTime ==
    /\ cd.mounted
    /\ cd.nextId <= MaxEffects
    /\ \E endTime \in CountdownEndTimes :
          /\ endTime # cd.endTime
          /\ cd' = CountdownEffect(CountdownCleanup(cd), endTime, nowMs)
    /\ UNCHANGED <<file, clock, call, calc, nowMs, net, poll>>

\* the component unmounts: cleanup
UnmountCountdown ==
    /\ cd.mounted
    /\ cd' = [CountdownCleanup(cd) EXCEPT !.mounted = FALSE,
                                           !.last = "unmount"]
    /\ UNCHANGED <<file, clock, call, calc, nowMs, net, poll>>

\* a timer that is due fires
CountdownTick ==
    /\ \E timer \in cd.timers :
          /\ timer.left = 0
          /\ cd' = CountdownTickOn(cd, timer, nowMs)
    /\ UNCHANGED <<file, clock, call, calc, nowMs, net, poll>>

\* time passes in the browser, up to the next timer that is due
CountdownTime ==
    /\ \A timer \in cd.timers : timer.left > 0
    /\ \E d \in 1..Quantum :
          /\ d = Quantum \/ \E timer \in cd.timers : timer.left = d
          /\ \A timer \in cd.timers : timer.left >= d
          /\ nowMs' = Min(nowMs + d, BrowserHorizon)
          /\ cd' = [cd EXCEPT
                      !.timers = {[timer EXCEPT !.left = @ - d] :
                                     timer \in cd.timers},
                      !.last = "time"]
    /\ UNCHANGED <<file, clock, call, calc, net, poll>>

NextCountdown ==
    \/ MountCountdown
    \/ ChangeEndTime
    \/ UnmountCountdown
    \/ CountdownTick
    \/ CountdownTime

SpecCountdown == InitCountdown /\ [][NextCountdown]_vars

\* the browser's clock does not stop and a timer that is due fires
SpecCountdownFair ==
    /\ SpecCountdown
    /\ WF_vars(CountdownTime)
    /\ WF_vars(CountdownTick)

(***************************************************************************)
(* client.ts, useMaintenanceStatus, in a page that leaves for '/' once the *)
(* status says that maintenance is over.  A fetch is issued, answered by   *)
(* the status route (or fails on the way) and settled later, when its      *)
(* continuation runs in the browser.  Timers are kept as in useCountdown.  *)
(***************************************************************************)
\* const { pollInterval = 30000 } = options
DefaultPollInterval == 30000
\* time passes in steps of at most PollStep ms
PollStep == 10000
\* fetches are counted over the first PollWindow ms after the effect ran
PollWindow == 40000
\* at most MaxInflight fetches are unsettled at a time
MaxInflight == 1
\* refetch is called at most MaxRefetch times per run of the effect
MaxRefetch == 1
\* the effect of useMaintenanceStatus runs at most MaxPollEffects times
MaxPollEffects == 2

\* no options at all, a faster poll, and no polling
PollOptions ==
    {Options(AbsentNumber, AbsentBoolean),
     Options(Given(10000), Given(TRUE)),
     Options(AbsentNumber, Given(FALSE))}

\* what the status route reads: a switch that is off, and one that is on
\* until T1
PollFiles ==
    {SourceFile("json", Obj(Bool(FALSE), Undef, Undef, Undef)),
     SourceFile("json", Obj(Bool(TRUE), Undef, Str("T1"), Undef))}

\* getMaintenanceStatus as a whole, its clock reads at now1 and now2
StatusRun(f, now1, now2) ==
    LET r == readMaintenanceConfig(f, FALSE)
        config == r.value
    IN  IF r.raised THEN [raised |-> TRUE, status |-> NoStatus]
        ELSE [raised |-> FALSE,
              status |-> IF ~Truthy(config.enabled)
                         THEN DisabledStatus(config)
                         ELSE IF WindowRun(config, now1).ret
                         THEN ActiveStatus(config)
                         ELSE DeriveStatus(config, now2)]

\* what fetch() settles with: a response (status code and decoded body) or
\* a rejection; Pending is a fetch not answered yet
Response(kind, code, body) == [kind |-> kind, code |-> code, body |-> body]
Pending == Response("pending", 0, NoStatus)
Rejected == Response("rejected", 0, NoStatus)
ResponseOk(r) == r.kind = "response" /\ r.code >= 200 /\ r.code <= 299

\* the status route: GET of /api/maintenance-status
RouteGET(f, now1, now2) ==
    LET s == StatusRun(f, now1, now2)
    IN  IF s.raised
        THEN Response("response", 500,
                 MaintenanceStatus(FALSE, Prim(Null),
                     Reason("Error reading maintenance configuration", "")))
        ELSE Response("response", 200, s.status)

\* the ways a fetch fails when the route cannot be reached: fetch rejects,
\* or something in between answers for the route
Failures == {Rejected, Response("response", 502, NoStatus)}

\* the fetches are still counted
Counting(p) == p.elapsed < PollWindow

\* once the window is over the counts are dropped
StopCounting(p) ==
    IF Counting(p) THEN p
    ELSE [p EXCEPT !.nImmediate = 0, !.nPolls = 0, !.nRefetch = 0,
                   !.nIssued = 0]

\* fetchStatus up to its first await: the request leaves
FetchStatus(p) ==
    [p EXCEPT !.inflight = Append(@, Pending),
              !.nIssued = IF Counting(p) THEN @ + 1 ELSE @]

\* the effect with the timer set whatever autoPoll says
PollEffect_alwaysPolls(p, options) ==
    LET pollInterval == OrDefault(options.pollInterval, DefaultPollInterval)
        autoPoll == OrDefault(options.autoPoll, TRUE)
        q == FetchStatus([p EXCEPT !.elapsed = 0, !.nIssued = 0,
                                   !.nPolls = 0, !.nRefetch = 0,
                                   !.nImmediate = 1])
    IN  [q EXCEPT !.mounted = TRUE, !.options = options,
                  !.pollInterval = pollInterval, !.autoPoll = autoPoll,
                  !.timers = @ \cup {[id |-> p.nextId,
                                      period |-> pollInterval,
                                      left |-> pollInterval]},
                  !.interval = p.nextId,
                  !.nextId = @ + 1]

\* the effect without its timer
PollEffect_noTimer(p, options) ==
    LET pollInterval == OrDefault(options.pollInterval, DefaultPollInterval)
        autoPoll == OrDefault(options.autoPoll, TRUE)
        q == FetchStatus([p EXCEPT !.elapsed = 0, !.nIssued = 0,
                                   !.nPolls = 0, !.nRefetch = 0,
                                   !.nImmediate = 1])
    IN  [q EXCEPT !.mounted = TRUE, !.options = options,
                  !.pollInterval = pollInterval, !.autoPoll = autoPoll,
                  !.interval = 0,
                  !.nextId = @ + 1]

\* the body of the effect of useMaintenanceStatus, run at mount and when
\* pollInterval or autoPoll changed: one fetch at once, and the timer if
\* autoPoll.  The counts start again with every run.
PollEffect(p, options) ==
    LET pollInterval == OrDefault(options.pollInterval, DefaultPollInterval)
        autoPoll == OrDefault(options.autoPoll, TRUE)
        q == FetchStatus([p EXCEPT !.elapsed = 0, !.nIssued = 0,
                                   !.nPolls = 0, !.nRefetch = 0,
                                   !.nImmediate = 1])
    IN  [q EXCEPT !.mounted = TRUE, !.options = options,
                  !.pollInterval = pollInterval, !.autoPoll = autoPoll,
                  !.timers = IF autoPoll
                             THEN @ \cup {[id |-> p.nextId,
                                           period |-> pollInterval,
                                           left |-> pollInterval]}
                             ELSE @,
                  !.interval = IF autoPoll THEN p.nextId ELSE 0,
                  !.nextId = @ + 1]

\* a cleanup that forgets the timer without clearing it
PollCleanup_leak(p) ==
    IF p.interval # 0
    THEN [p EXCEPT !.interval = 0]
    ELSE p

\* the cleanup the effect returned: none if it had set no timer
PollCleanup(p) ==
    IF p.interval # 0
    THEN [p EXCEPT !.timers = ClearInterval(@, p.interval), !.interval = 0]
    ELSE p

\* the effect of MaintenancePage, run when status has changed
PageEffect(p) ==
    IF p.hasStatus /\ ~p.status.active
    THEN [p EXCEPT !.navigated = TRUE]
    ELSE p

RemoveAt(seq, i) == SubSeq(seq, 1, i - 1) \o SubSeq(seq, i + 1, Len(seq))

\* the continuation with a failure dropping the stored status
SettleOn_dropsStatus(p, i) ==
    LET r == p.inflight[i]
        q == [p EXCEPT !.inflight = RemoveAt(@, i),
                       !.behind = IF i <= @ THEN @ - 1 ELSE @]
    IN  IF ~p.mounted THEN q
        ELSE IF r.kind = "rejected"
        THEN [q EXCEPT !.error = "Failed to fetch", !.isLoading = FALSE,
                       !.hasStatus = FALSE, !.status = NoStatus]
        ELSE IF ~ResponseOk(r)
        THEN [q EXCEPT !.error = "HTTP error! status: ${response.status}",
                       !.isLoading = FALSE,
                       !.hasStatus = FALSE, !.status = NoStatus]
        ELSE PageEffect([q EXCEPT !.hasStatus = TRUE, !.status = r.body,
                                  !.error = "", !.isLoading = FALSE,
                                  !.behind = i - 1])

\* fetchStatus from its first await on, for the i-th unsettled fetch: the
\* state setters do nothing once the component is gone
SettleOn(p, i) ==
    LET r == p.inflight[i]
        q == [p EXCEPT !.inflight = RemoveAt(@, i),
                       !.behind = IF i <= @ THEN @ - 1 ELSE @]
    IN  IF ~p.mounted THEN q
        ELSE IF r.kind = "rejected"
        THEN [q EXCEPT !.error = "Failed to fetch", !.isLoading = FALSE]
        ELSE IF ~ResponseOk(r)
        THEN [q EXCEPT !.error = "HTTP error! status: ${response.status}",
                       !.isLoading = FALSE]
        ELSE PageEffect([q EXCEPT !.hasStatus = TRUE, !.status = r.body,
                                  !.error = "", !.isLoading = FALSE,
                                  !.behind = i - 1])

\* the interval callback: fetchStatus; the timer is due again a period on
PollTickOn(p, timer) ==
    LET q == FetchStatus(p)
    IN  [q EXCEPT !.timers = (@ \ {timer})
                             \cup {[timer EXCEPT !.left = timer.period]},
                  !.nPolls = IF Counting(p) THEN @ + 1 ELSE @]

InitPoll ==
    /\ file \in PollFiles
    /\ clock = 0
    /\ call = NoCall
    /\ calc = NoCalc
    /\ nowMs = 0
    /\ cd = NoCountdown
    /\ net \in {"up", "down"}
    /\ poll = NoPoll

\* the page is opened
MountPoll ==
    /\ ~poll.mounted
    /\ poll.nextId <= MaxPollEffects
    /\ Len(poll.inflight) < MaxInflight
    /\ \E options \in PollOptions :
          poll' = PollEffect(poll, options)
    /\ UNCHANGED <<file, clock, call, calc, nowMs, cd, net>>

\* a render with other options: the cleanup, then the effect again
ChangeOptions ==
    /\ poll.mounted
    /\ poll.nextId <= MaxPollEffects
    /\ Len(poll.inflight) < MaxInflight
    /\ \E options \in PollOptions :
          /\ \/ OrDefault(options.pollInterval, DefaultPollInterval)
                   # poll.pollInterval
             \/ OrDefault(options.autoPoll, TRUE) # poll.autoPoll
          /\ poll' = PollEffect(PollCleanup(poll), options)
    /\ UNCHANGED <<file, clock, call, calc, nowMs, cd, net>>

\* the page is left, after router.push or by the user.  The fetches of
\* the instance that is gone are no longer followed: their continuations
\* set the state of no instance
UnmountPoll ==
    /\ poll.mounted
    /\ poll' = [NoPoll EXCEPT
                   !.timers = PollCleanup(poll).timers,
                   !.nextId = poll.nextId,
                   !.navigated = poll.navigated]
    /\ UNCHANGED <<file, clock, call, calc, nowMs, cd, net>>

\* the caller uses the refetch it was returned
Refetch ==
    /\ poll.mounted
    /\ poll.nRefetch < MaxRefetch
    /\ Len(poll.inflight) < MaxInflight
    /\ poll' = [FetchStatus(poll) EXCEPT
                   !.nRefetch = IF Counting(poll) THEN @ + 1 ELSE @]
    /\ UNCHANGED <<file, clock, call, calc, nowMs, cd, net>>

\* a timer that is due fires
PollTick ==
    /\ Len(poll.inflight) < MaxInflight
    /\ \E timer \in poll.timers :
          /\ timer.left = 0
          /\ poll' = PollTickOn(poll, timer)
    /\ UNCHANGED <<file, clock, call, calc, nowMs, cd, net>>

\* time passes in the browser, up to the moment the next timer is due
PollTime ==
    /\ \A timer \in poll.timers : timer.left > 0
    /\ poll.timers # {} \/ (poll.mounted /\ Counting(poll))
    /\ \E d \in {PollStep} \cup {timer.left : timer \in poll.timers} :
          /\ d <= PollStep
          /\ \A timer \in poll.timers : timer.left >= d
          /\ poll' = StopCounting(
                        [poll EXCEPT
                           !.timers = {[timer EXCEPT !.left = @ - d] :
                                          timer \in poll.timers},
                           !.elapsed = IF poll.mounted
                                       THEN Min(@ + d, PollWindow) ELSE @])
    /\ UNCHANGED <<file, clock, call, calc, nowMs, cd, net>>

\* a fetch is answered: by the route from the file as it is now, or not
Serve ==
    /\ \E i \in DOMAIN poll.inflight :
          /\ poll.inflight[i] = Pending
          /\ \E r \in (IF net = "up" THEN {RouteGET(file, clock, clock)}
                       ELSE Failures) :
                poll' = [poll EXCEPT !.inflight[i] = r]
    /\ UNCHANGED <<file, clock, call, calc, nowMs, cd, net>>

\* the continuation of an answered fetch runs
Settle ==
    /\ \E i \in DOMAIN poll.inflight :
          /\ poll.inflight[i] # Pending
          /\ poll' = SettleOn(poll, i)
    /\ UNCHANGED <<file, clock, call, calc, nowMs, cd, net>>

\* the network between browser and route goes away or comes back
Network ==
    /\ net' = IF net = "up" THEN "down" ELSE "up"
    /\ UNCHANGED <<file, clock, call, calc, nowMs, cd, poll>>

\* maintenance.json is switched
PollEdit ==
    /\ \E f \in PollFiles : f # file /\ file' = f
    /\ UNCHANGED <<clock, call>>
    /\ UNCHANGED clientVars

\* the server's clock moves on, until the end time of PollFiles has passed
PollAdvance ==
    /\ clock <= DateParse("T1")
    /\ clock' = clock + 1
    /\ UNCHANGED <<file, call>>
    /\ UNCHANGED clientVars

NextPoll ==
    \/ PollEdit
    \/ PollAdvance
    \/ Network
    \/ MountPoll
    \/ ChangeOptions
    \/ UnmountPoll
    \/ Refetch
    \/ PollTick
    \/ PollTime
    \/ Serve
    \/ Settle

SpecPoll == InitPoll /\ [][NextPoll]_vars

(***************************************************************************)
(* MaintenancePage: the hook with the options the page passes; the page    *)
(* neither changes them nor calls refetch.                                 *)
(***************************************************************************)
PageOptions == Options(Given(30000), Given(TRUE))

\* /maintenance is opened
MountPage ==
    /\ ~poll.mounted
    /\ poll.nextId <= MaxPollEffects
    /\ Len(poll.inflight) < MaxInflight
    /\ poll' = PollEffect(poll, PageOptions)
    /\ UNCHANGED <<file, clock, call, calc, nowMs, cd, net>>

NextPage ==
    \/ PollEdit
    \/ PollAdvance
    \/ Network
    \/ MountPage
    \/ UnmountPoll
    \/ PollTick
    \/ PollTime
    \/ Serve
    \/ Settle

\* every timer fires when due, time does not stop, every request is
\* answered or fails, and every continuation runs
SpecPage ==
    /\ InitPoll
    /\ [][NextPage]_vars
    /\ WF_vars(PollTime)
    /\ WF_vars(PollTick)
    /\ WF_vars(Serve)
    /\ WF_vars(Settle)

(***************************************************************************)
(* useMaintenanceStatus with fetches that overlap: refetch is called while *)
(* an earlier fetch is still unsettled.                                    *)
(***************************************************************************)
\* refetch is called while fewer than MaxOverlap fetches are unsettled
MaxOverlap == 2

\* the caller uses refetch before the fetch under way has settled
RefetchAgain ==
    /\ poll.mounted
    /\ poll.nRefetch < MaxRefetch
    /\ Len(poll.inflight) >= 1
    /\ Len(poll.inflight) < MaxOverlap
    /\ poll' = [FetchStatus(poll) EXCEPT
                   !.nRefetch = IF Counting(poll) THEN @ + 1 ELSE @]
    /\ UNCHANGED <<file, clock, call, calc, nowMs, cd, net>>

NextOverlap ==
    \/ NextPoll
    \/ RefetchAgain

SpecOverlap == InitPoll /\ [][NextOverlap]_vars

(***************************************************************************)
(* A component with one of the two hooks: either useMaintenanceStatus      *)
(* against the status route, or useCountdown.                              *)
(***************************************************************************)
InitHooks == InitPoll \/ InitCountdown

\* the component is the one with useMaintenanceStatus
UsesStatus == file \in PollFiles

StatusHook == UsesStatus /\ NextPoll
CountdownHook == ~UsesStatus /\ NextCountdown

NextHooks ==
    \/ StatusHook
    \/ CountdownHook

SpecHooks == InitHooks /\ [][NextHooks]_vars

(***************************************************************************)
(* The documented set-up: a maintenance.json written after the sample of   *)
(* the documentation, whose bounds may be left as empty strings, the proxy *)
(* and the status route reading it, and the page counting down to the      *)
(* endTime of the status it was given.                                     *)
(***************************************************************************)
SampleFiles ==
    {SourceFile("json", Obj(Bool(e), s, n, Str("back soon"))) :
        e \in BOOLEAN, s \in TimeFieldOK, n \in TimeFieldOK}

InitSample ==
    /\ file \in SampleFiles
    /\ clock = 0
    /\ call = NoCall
    /\ ClientIdle

\* useCountdown(status?.config?.endTime): the first calculation, the
\* browser's clock agreeing with the server's
ShowCountdown ==
    /\ call.pc = "done" /\ call.op = "status" /\ ~call.raised
    /\ LET endTime == call.status.config.endTime
           r == CalcRun(endTime, clock)
       IN  calc' = [NoCalc EXCEPT !.pc = "done", !.endTime = endTime,
                                  !.now = clock, !.out = r.ret,
                                  !.warned = r.warned]
    /\ UNCHANGED <<file, clock, call, nowMs, cd, net, poll>>

NextSample ==
    \/ Advance
    \/ Proxy
    \/ GetStatusStart
    \/ GetStatusDerive
    \/ ShowCountdown

SpecSample == InitSample /\ [][NextSample]_vars

(***************************************************************************)
(* Properties.                                                             *)
(***************************************************************************)
\* the proxy has run isMaintenanceActive on the configuration it read
Gated == call.pc = "done" /\ call.op = "proxy" /\ ~Exempt(call.pathname)
         /\ ~call.raised
\* getMaintenanceStatus has returned
Answered == call.pc = "done" /\ call.op = "status" /\ ~call.raised

TimeWarnings == {"Invalid startTime format", "Invalid endTime format"}
Parses(x) == x.t = "string" /\ DateParse(x.v) # NaN

DisabledTpl == "Maintenance is disabled (enabled: false)"
NotStartedTpl == "Maintenance hasn't started yet (starts at ${config.startTime})"
EndedTpl == "Maintenance has ended (ended at ${config.endTime})"
ActiveUntilTpl == "Maintenance active until ${config.endTime}"
ActiveNoEndTpl == "Maintenance active (no end time specified)"

\* C1: with enabled = false the gate is closed and the status is inactive
\* with the 'disabled' reason, whatever startTime and endTime hold; the
\* window check does not run (no clock read, no timestamp warning).
C1_DisabledHasPriority ==
    /\ (Gated /\ call.config.enabled = Bool(FALSE)) =>
          /\ call.active = FALSE
          /\ call.decision = "next"
          /\ call.reads = 0
          /\ call.warned \cap TimeWarnings = {}
    /\ (Answered /\ call.config.enabled = Bool(FALSE)) =>
          /\ call.status.active = FALSE
          /\ call.status.reason = Reason(DisabledTpl, "")
          /\ call.reads = 0
          /\ call.warned \cap TimeWarnings = {}

C1_Witness ==
    /\ Gated
    /\ call.src.st = "json"
    /\ call.config = Obj(Bool(FALSE), Str("soon"), Str("T3"), Undef)
    /\ clock = 2
    /\ call.active = FALSE

\* C2: with enabled = true the gate answers false when startTime parses
\* to an instant after now, and when endTime parses to an instant before
\* now, whatever the other bound holds.
C2_OutsideWindowInactive ==
    (Gated /\ call.config.enabled = Bool(TRUE)) =>
        /\ (Parses(call.config.startTime)
            /\ DateParse(call.config.startTime.v) > call.now)
              => call.active = FALSE
        /\ (Parses(call.config.endTime)
            /\ DateParse(call.config.endTime.v) < call.now)
              => call.active = FALSE

C2_Witness ==
    /\ Gated
    /\ call.config.enabled = Bool(TRUE)
    /\ call.config.startTime = Str("soon")
    /\ call.config.endTime = Str("T1")
    /\ call.now = 2
    /\ call.decision = "next"

\* C3: with enabled = true and both bounds valid, the gate answers true
\* at every instant strictly between them.
C3_InsideWindowActive ==
    (/\ Gated
     /\ call.config.enabled = Bool(TRUE)
     /\ Parses(call.config.startTime)
     /\ Parses(call.config.endTime)
     /\ DateParse(call.config.startTime.v) < call.now
     /\ call.now < DateParse(call.config.endTime.v))
        => call.active = TRUE

C3_Witness ==
    /\ Gated
    /\ call.config.enabled = Bool(TRUE)
    /\ call.config.startTime = Str("T1")
    /\ call.config.endTime = Str("T3")
    /\ call.now = 2
    /\ call.decision = "redirect /maintenance"

\* C4: with enabled = true and neither startTime nor endTime, the gate
\* answers true at every instant.
C4_NoBoundsIndefinite ==
    (/\ Gated
     /\ call.config.enabled = Bool(TRUE)
     /\ call.config.startTime = Undef
     /\ call.config.endTime = Undef)
        => call.active = TRUE

C4_Witness ==
    /\ Gated
    /\ call.config = Obj(Bool(TRUE), Undef, Undef, Str("back soon"))
    /\ call.now = MaxClock
    /\ call.active = TRUE

\* the source cannot be obtained or fails validation
SourceFails(f) == f.st # "json" \/ ~validateMaintenanceConfig(f.data)

\* C5: readMaintenanceConfig does not raise, and for a source that is
\* missing, unreadable, not JSON or rejected by the validator it returns
\* exactly {enabled: false}, for which isMaintenanceActive is false.
C5_ReadFailsOpen ==
    (call.pc = "done" /\ call.op = "read") =>
        /\ ~call.raised
        /\ SourceFails(call.src) =>
              /\ call.config = SafeDefault
              /\ isMaintenanceActive(call.config, clock) = FALSE

C5_Witness ==
    /\ call.pc = "done" /\ call.op = "read"
    /\ call.src.st = "EACCES"
    /\ ~call.silent
    /\ call.config = SafeDefault
    /\ call.warned = {"Error reading maintenance config"}

\* C6: whatever the source holds, the value a caller gets from
\* readMaintenanceConfig is one the validator accepts.
C6_ReadReturnsValid ==
    (/\ call.pc = "done"
     /\ \/ call.op \in {"read", "status"}
        \/ call.op = "proxy" /\ ~Exempt(call.pathname)
     /\ ~call.raised)
        => validateMaintenanceConfig(call.config)

C6_Witness ==
    /\ call.pc = "done" /\ call.op = "read"
    /\ call.src = SourceFile("json", Obj(Bool(TRUE), Num("123"), Undef, Undef))
    /\ call.config = SafeDefault

\* the shape the validator is to accept
OptionalString(x) == x.t \in {"undefined", "string"}
ConfigShape(d) ==
    /\ d.t \in {"object", "array"}
    /\ d.enabled.t = "boolean"
    /\ OptionalString(d.startTime)
    /\ OptionalString(d.endTime)
    /\ OptionalString(d.message)

\* C7: the validator accepts a decoded value exactly when it is a
\* non-null object with a boolean enabled and with startTime, endTime and
\* message each absent or a string; it rejects null, {}, {enabled: "true"}
\* and {enabled: true, startTime: 123} and accepts a startTime or endTime
\* string that is no timestamp.
C7_ValidatorShape ==
    (call.pc = "done" /\ call.op = "read" /\ call.src.st = "json") =>
        /\ call.valid <=> ConfigShape(call.src.data)
        /\ call.src.data \in
              {Prim(Null), Obj(Undef, Undef, Undef, Undef),
               Obj(Str("true"), Undef, Undef, Undef),
               Obj(Bool(TRUE), Num("123"), Undef, Undef)}
              => ~call.valid
        /\ call.src.data \in
              {Obj(Bool(TRUE), Str("soon"), Undef, Undef),
               Obj(Bool(TRUE), Undef, Str("soon"), Undef)}
              => call.valid

C7_Witness ==
    /\ call.pc = "done" /\ call.op = "read"
    /\ call.src = SourceFile("json", Obj(Bool(TRUE), Undef, Str("soon"), Undef))
    /\ call.valid
    /\ call.config = call.src.data

\* the row of the decision priority table for a configuration and an instant
DecisionRow(config, now) ==
    IF config.enabled = Bool(FALSE) THEN "disabled"
    ELSE IF Parses(config.startTime) /\ now < DateParse(config.startTime.v)
    THEN "not started"
    ELSE IF Parses(config.endTime) /\ now > DateParse(config.endTime.v)
    THEN "ended"
    ELSE "active"

RowOfReason(reason) ==
    CASE reason.tpl = DisabledTpl -> "disabled"
      [] reason.tpl = NotStartedTpl -> "not started"
      [] reason.tpl = EndedTpl -> "ended"
      [] reason.tpl \in {ActiveUntilTpl, ActiveNoEndTpl} -> "active"
      [] OTHER -> "none"

\* C8: the status returned for a validator-accepted configuration carries
\* a reason, its active flag is what isMaintenanceActive answers for that
\* configuration at the instant of the return, and its reason is the
\* decision-table row of that configuration and instant.
C8_StatusAgreesWithGate ==
    (Answered /\ validateMaintenanceConfig(call.status.config)) =>
        /\ call.status.reason # NoReason
        /\ call.status.active = isMaintenanceActive(call.status.config, clock)
        /\ RowOfReason(call.status.reason)
              = DecisionRow(call.status.config, clock)

C8_Witness ==
    /\ Answered
    /\ call.src.st = "json"
    /\ call.status.config = Obj(Bool(TRUE), Str("T3"), Str("T1"), Undef)
    /\ clock = 2
    /\ call.status.reason = Reason(NotStartedTpl, "T3")

\* C9: when the window check has returned false for an enabled
\* configuration, the status is inactive with the 'not started' or the
\* 'ended' reason, wherever the two clock reads fall.
C9_NoFallThrough ==
    (Answered /\ Truthy(call.config.enabled) /\ ~call.inWindow) =>
        /\ call.status.active = FALSE
        /\ call.status.reason.tpl \in {NotStartedTpl, EndedTpl}

\* C10 as stated: an active status says 'active until <endTime>' when the
\* configuration has an endTime and 'no end time specified' otherwise.
C10_AsStated ==
    (Answered /\ call.status.active) =>
        call.status.reason =
            IF call.status.config.endTime # Undef
            THEN Reason(ActiveUntilTpl, call.status.config.endTime.v)
            ELSE Reason(ActiveNoEndTpl, "")

\* C10: an active status says 'active until <endTime>' when the
\* configuration has a non-empty endTime and 'no end time specified' when
\* endTime is absent or the empty string, and the configuration it
\* returns is the one that was read.
C10_ActiveReason ==
    (Answered /\ call.status.active) =>
        /\ call.status.reason =
              IF call.status.config.endTime \notin {Undef, Str("")}
              THEN Reason(ActiveUntilTpl, call.status.config.endTime.v)
              ELSE Reason(ActiveNoEndTpl, "")
        /\ call.src.st = "json"
        /\ call.status.config = call.src.data

C10_Witness ==
    /\ Answered
    /\ call.status.active
    /\ call.status.config.endTime = Str("")
    /\ call.status.reason = Reason(ActiveNoEndTpl, "")


\* a configuration with its unparseable bounds removed
Unparseable(x) == x.t = "string" /\ DateParse(x.v) = NaN
DropUnparseable(config) ==
    [config EXCEPT
        !.startTime = IF Unparseable(@) THEN Undef ELSE @,
        !.endTime = IF Unparseable(@) THEN Undef ELSE @]

\* C11: an unparseable startTime or endTime drops only that bound: the
\* window check answers as for the configuration without it, which is
\* true exactly when now violates no parseable bound, so the other bound
\* is still enforced and no unparseable text alone closes the window.
C11_UnparseableBoundDropped ==
    (Gated /\ call.config.enabled = Bool(TRUE)) =>
        /\ call.inWindow
              = isInMaintenanceWindow(DropUnparseable(call.config), call.now)
        /\ call.inWindow <=>
              /\ Parses(call.config.startTime)
                    => DateParse(call.config.startTime.v) <= call.now
              /\ Parses(call.config.endTime)
                    => call.now <= DateParse(call.config.endTime.v)
        /\ (~Parses(call.config.startTime) /\ ~Parses(call.config.endTime))
              => call.inWindow

C11_Witness ==
    /\ Gated
    /\ call.config = Obj(Bool(TRUE), Str("soon"), Str("T1"), Undef)
    /\ call.now = 2
    /\ call.inWindow = FALSE
    /\ "Invalid startTime format" \in call.warned


\* what the proxy is to answer for the file and the clock as they are now
FreshDecision ==
    IF isMaintenanceActive(readMaintenanceConfig(file, TRUE).value, clock)
    THEN "redirect /maintenance" ELSE "next"

\* C12: every non-exempt request is decided from the file content and the
\* clock of the moment of the request: an edit of the file or the clock
\* passing a bound shows in the very next request, and no earlier content
\* is used.
C12_FreshOnEveryRequest ==
    [][(call' # call /\ call'.op = "proxy" /\ ~Exempt(call'.pathname)) =>
          /\ call'.src = file
          /\ call'.config = readMaintenanceConfig(file, TRUE).value
          /\ call'.decision = FreshDecision]_vars

C12_Witness ==
    /\ Gated
    /\ call.src = SourceFile("json", Obj(Bool(TRUE), Str("T1"), Str("T3"), Undef))
    /\ call.now = 4
    /\ call.decision = "next"
    /\ file = SourceFile("json", Obj(Bool(TRUE), Undef, Undef, Undef))

\* the paths the proxy is to let through
LetThrough(pathname) ==
    \/ Len(pathname) >= 12 /\ SubSeq(pathname, 1, 12) = MaintenancePrefix
    \/ Len(pathname) >= 5 /\ SubSeq(pathname, 1, 5) = <<"/", "a", "p", "i", "/">>
    \/ Len(pathname) >= 7
       /\ SubSeq(pathname, 1, 7) = <<"/", "_", "n", "e", "x", "t", "/">>
    \/ \E i \in DOMAIN pathname : pathname[i] = "."

\* C13: a request for /maintenance..., /api/..., /_next/... or a path
\* with a '.' is passed through without the file or the clock being read,
\* whatever they hold, and the request that follows the proxy's redirect
\* is passed through.
C13_NoRedirectLoop ==
    (call.pc = "done" /\ call.op = "proxy") =>
        /\ LetThrough(call.pathname) =>
              /\ call.decision = "next"
              /\ call.reads = 0
              /\ call.location = <<>>
        /\ call.via = "redirect" => call.decision = "next"

C13_Witness ==
    /\ call.pc = "done" /\ call.op = "proxy"
    /\ call.via = "redirect"
    /\ call.pathname = MaintenancePrefix
    /\ call.decision = "next"
    /\ file = SourceFile("json", Obj(Bool(TRUE), Undef, Undef, Undef))

\* an enabled configuration with a valid window, start not after end
Scheduled(config) ==
    /\ config.enabled = Bool(TRUE)
    /\ Parses(config.startTime)
    /\ Parses(config.endTime)
    /\ DateParse(config.startTime.v) <= DateParse(config.endTime.v)

\* C14: for an enabled configuration with valid startTime <= endTime the
\* gate is closed before startTime, open from startTime through endTime
\* and closed after endTime, and a request after one that was refused
\* past endTime is refused too.
C14_AutoStartStop ==
    [][(call' # call /\ Gated' /\ Scheduled(call'.config)) =>
          /\ call'.active <=>
                /\ DateParse(call'.config.startTime.v) <= call'.now
                /\ call'.now <= DateParse(call'.config.endTime.v)
          /\ (/\ Gated
              /\ call.config = call'.config
              /\ call.now > DateParse(call.config.endTime.v)
              /\ ~call.active)
                => ~call'.active]_vars

C14_Witness ==
    /\ Gated
    /\ call.config = Obj(Bool(TRUE), Str("T1"), Str("T3"), Undef)
    /\ call.now = 3
    /\ call.active
    /\ clock = 4


Calculated == calc.pc = "done" /\ Parses(calc.endTime)
Remaining == Max(0, DateParse(calc.endTime.v) - calc.now)
IsCount(n) == n \in Nat

\* C19: for a parseable endTime the total is the number of whole seconds
\* from now to end, zero when end is past: every field is a non-negative
\* integer, and with end past or less than a second ahead the breakdown
\* is all zero.
C19_TotalSecondsFloorClamped ==
    Calculated =>
        /\ ~calc.out.isNull
        /\ IsCount(calc.out.totalSeconds) /\ IsCount(calc.out.days)
        /\ IsCount(calc.out.hours) /\ IsCount(calc.out.minutes)
        /\ IsCount(calc.out.seconds)
        /\ calc.out.totalSeconds * 1000 <= Remaining
        /\ Remaining < (calc.out.totalSeconds + 1) * 1000
        /\ DateParse(calc.endTime.v) - calc.now < 1000
              => calc.out = TimeRemaining(0, 0, 0, 0, 0)

C19_Witness ==
    /\ Calculated
    /\ calc.endTime = Str("1970-01-01T00:00:02.500Z")
    /\ calc.now = 1501
    /\ calc.out = TimeRemaining(0, 0, 0, 0, 0)

\* C20: a positive total is broken down by fixed radix: days, hours under
\* 24, minutes under 60 and seconds under 60 that add up to the total
\* (3661 is 0d 1h 1m 1s).
C20_FixedRadixBreakdown ==
    (Calculated /\ calc.out.totalSeconds > 0) =>
        LET t == calc.out.totalSeconds
        IN  /\ calc.out.days = t \div 86400
            /\ calc.out.hours = (t % 86400) \div 3600
            /\ calc.out.minutes = (t % 3600) \div 60
            /\ calc.out.seconds = t % 60
            /\ calc.out.hours < 24
            /\ calc.out.minutes < 60
            /\ calc.out.seconds < 60
            /\ calc.out.days * 86400 + calc.out.hours * 3600
                  + calc.out.minutes * 60 + calc.out.seconds = t
            /\ t = 3661 => calc.out = TimeRemaining(0, 1, 1, 1, 3661)

C20_Witness ==
    /\ Calculated
    /\ calc.now = 0
    /\ calc.out = TimeRemaining(1, 1, 1, 1, 90061)


ZeroRemaining == TimeRemaining(0, 0, 0, 0, 0)
\* the countdown of a parseable endTime has stopped itself
Stopped(c) == c.mounted /\ Parses(c.endTime) /\ c.timers = {}
\* less than a whole second is left to endTime
AtZero(endTime, t) == DateParse(endTime.v) - t < 1000

\* C18: for a parseable endTime the timer set by the effect fires a second
\* later and every tick recomputes the remaining time; a tick that
\* observes a positive total is followed by the next a second later, the
\* first tick that observes zero clears the timer, and from then on the
\* all-zero value stays and nothing is recomputed until endTime changes.
C18_CountdownStopsAtZero ==
    [][/\ (cd'.last = "effect" /\ cd' # cd /\ Parses(cd'.endTime)) =>
             \E timer \in cd'.timers :
                 /\ timer.id = cd'.interval
                 /\ timer.endTime = cd'.endTime
                 /\ timer.left = CountdownPeriod
       /\ (cd'.last = "tick" /\ cd' # cd) =>
             \E timer \in cd.timers :
                 /\ timer.left = 0
                 /\ {t.id : t \in cd'.timers} \subseteq {t.id : t \in cd.timers}
                 /\ Parses(timer.endTime) =>
                       /\ cd.mounted =>
                             cd'.timeRemaining =
                                IF AtZero(timer.endTime, nowMs)
                                THEN ZeroRemaining
                                ELSE Breakdown((DateParse(timer.endTime.v)
                                                   - nowMs) \div 1000)
                       /\ AtZero(timer.endTime, nowMs) =>
                             \A t \in cd'.timers : t.id # timer.id
                       /\ ~AtZero(timer.endTime, nowMs) =>
                             \E t \in cd'.timers :
                                 t.id = timer.id /\ t.left = CountdownPeriod
       /\ (Stopped(cd) /\ cd'.mounted /\ cd'.endTime = cd.endTime) =>
             /\ cd.timeRemaining = ZeroRemaining
             /\ cd'.timeRemaining = ZeroRemaining
             /\ cd'.timers = {}
             /\ cd'.last # "tick"]_vars

C18_Witness ==
    /\ Stopped(cd)
    /\ cd.endTime = Str("1970-01-01T00:00:02.500Z")
    /\ cd.timeRemaining = ZeroRemaining
    /\ cd.last = "tick"
    /\ nowMs = 2000


\* C15: while mounted, each run of the effect of useMaintenanceStatus (one
\* per mount and per change of its options) issues one fetch at once and,
\* with autoPoll true or absent, one more each time a further pollInterval
\* (30000 ms if absent) has passed; with autoPoll false there is no timer
\* and the only other fetches are the calls of refetch
C15_PollSchedule ==
    (poll.mounted /\ Counting(poll)) =>
        /\ ~poll.options.pollInterval.given => poll.pollInterval = 30000
        /\ poll.options.pollInterval.given =>
              poll.pollInterval = poll.options.pollInterval.v
        /\ poll.nImmediate = 1
        /\ poll.nIssued = 1 + poll.nPolls + poll.nRefetch
        /\ IF poll.options.autoPoll.given => poll.options.autoPoll.v
           THEN \E timer \in poll.timers :
                   /\ timer.id = poll.interval
                   /\ poll.elapsed = poll.nPolls * poll.pollInterval
                                     + (poll.pollInterval - timer.left)
           ELSE poll.nPolls = 0 /\ poll.timers = {}

\* no options given: the second fetch has left after 30000 ms
C15_Witness ==
    /\ poll.mounted /\ Counting(poll)
    /\ ~poll.options.pollInterval.given /\ ~poll.options.autoPoll.given
    /\ poll.elapsed = 30000 /\ poll.nPolls = 1 /\ poll.nIssued = 2

\* C16: a fetch that fails (fetch rejects, or the response is not OK) sets
\* error and leaves the stored status and the polling timer as they were;
\* a fetch that succeeds stores its body as the status and clears error
C16_FailureNotFinal ==
    [][\A i \in DOMAIN poll.inflight :
          (/\ poll.mounted /\ poll'.mounted
           /\ poll.inflight[i] # Pending
           /\ poll'.inflight = RemoveAt(poll.inflight, i))
          => IF ResponseOk(poll.inflight[i])
             THEN /\ poll'.hasStatus
                  /\ poll'.status = poll.inflight[i].body
                  /\ poll'.error = ""
             ELSE /\ poll'.error # ""
                  /\ poll'.hasStatus = poll.hasStatus
                  /\ poll'.status = poll.status
                  /\ poll'.timers = poll.timers
                  /\ poll'.interval = poll.interval]_vars

\* an error is recorded, the status stored before it is still there, and
\* the timer is live
C16_Witness ==
    /\ poll.mounted /\ poll.error # ""
    /\ poll.hasStatus /\ poll.status.active
    /\ \E timer \in poll.timers : timer.id = poll.interval

\* what the status route would answer at this moment
ServerActive == StatusRun(file, clock, clock).status.active
\* the page is open and polls, or has left for '/'
PageUp == poll.navigated \/ (poll.mounted /\ poll.autoPoll)

\* C17: auto-dismiss.  If from some moment on the status route can be
\* reached and answers, maintenance is not active, and the maintenance page
\* is open with auto-polling on, then the page eventually stores a status
\* with active = false and calls router.push('/')
C17_AutoDismiss ==
    <>[](net = "up" /\ ~ServerActive /\ PageUp) => <>poll.navigated

\* the page has polled, has been told that maintenance is over and has left
C17_Witness ==
    /\ net = "up" /\ ~ServerActive
    /\ poll.mounted /\ poll.autoPoll /\ poll.nPolls >= 1
    /\ poll.hasStatus /\ ~poll.status.active
    /\ poll.navigated


\* C21: calculateTimeRemaining returns null exactly when endTime is absent
\* or is no timestamp; an endTime that parses gets a breakdown, also when
\* it is already past, where the breakdown is all zero
C21_NullIffNoTimestamp ==
    calc.pc = "done" =>
        /\ calc.out.isNull <=> ~Parses(calc.endTime)
        /\ (Parses(calc.endTime) /\ DateParse(calc.endTime.v) < calc.now)
              => calc.out = TimeRemaining(0, 0, 0, 0, 0)

\* an endTime half a second in the past got the all-zero breakdown
C21_Witness ==
    /\ calc.pc = "done"
    /\ calc.endTime = Str("1970-01-01T00:00:02.500Z")
    /\ calc.now = 3000
    /\ ~calc.out.isNull
    /\ calc.out.totalSeconds = 0


\* the characters of n followed by its unit letter
Shown(n, unit) == Decimal(n) \o <<unit>>
Space == <<" ">>

\* C22: formatCountdown returns "" for null and otherwise the format of the
\* largest unit that is not zero: days, hours and minutes (no seconds);
\* hours and minutes; minutes and seconds; or the seconds alone, which for
\* the all-zero breakdown is "0s"
C22_FormatByLargestUnit ==
    calc.pc = "shown" =>
        LET t == calc.out
        IN  /\ calc.text =
                 IF t.isNull THEN <<>>
                 ELSE IF t.days > 0
                 THEN Shown(t.days, "d") \o Space \o Shown(t.hours, "h")
                      \o Space \o Shown(t.minutes, "m")
                 ELSE IF t.hours > 0
                 THEN Shown(t.hours, "h") \o Space \o Shown(t.minutes, "m")
                 ELSE IF t.minutes > 0
                 THEN Shown(t.minutes, "m") \o Space \o Shown(t.seconds, "s")
                 ELSE Shown(t.seconds, "s")
            /\ t = TimeRemaining(0, 0, 0, 0, 0) => calc.text = <<"0", "s">>
            /\ t = TimeRemaining(0, 0, 0, 59, 59)
                  => calc.text = <<"5", "9", "s">>
            /\ t = TimeRemaining(0, 1, 1, 1, 3661)
                  => calc.text = <<"1", "h", " ", "1", "m">>

\* a day, an hour, a minute and a second are shown as "1d 1h 1m"
C22_Witness ==
    /\ calc.pc = "shown"
    /\ calc.out = TimeRemaining(1, 1, 1, 1, 90061)
    /\ calc.text = <<"1", "d", " ", "1", "h", " ", "1", "m">>


\* other texts the message of a file could have been
OtherMessages == {Str(""), Str("We are upgrading"), Str("T3")}
\* the file with its document's message replaced
WithMessage(f, m) == SourceFile(f.st, [f.data EXCEPT !.message = m])
\* the call read a JSON object whose message is a string
MessageRead == call.pc = "done" /\ call.op # "none" /\ ~call.raised
               /\ call.src.st = "json" /\ call.src.data.t = "object"
               /\ call.src.data.message.t = "string"

\* C23: the message has no part in the decision.  Whatever string the
\* message of the file read had been instead, the validator would have
\* given the same verdict, the proxy's isMaintenanceActive the same value
\* and getMaintenanceStatus the same active, at the same clock readings
C23_MessageIrrelevant ==
    MessageRead =>
        \A m \in OtherMessages :
            LET g == WithMessage(call.src, m)
                r == readMaintenanceConfig(g, call.silent)
            IN  /\ validateMaintenanceConfig(g.data) = call.valid
                /\ r.valid = call.valid
                /\ Gated => isMaintenanceActive(r.value, call.now)
                               = call.active
                /\ Answered => StatusRun(g, call.now1, call.now).status.active
                                  = call.status.active

\* maintenance was found active from a file with a message
C23_Witness ==
    /\ MessageRead /\ Answered
    /\ call.valid /\ call.status.active
    /\ call.src.data.message = Str("back soon")


\* an enabled configuration whose startTime is a later instant than its
\* endTime
Inverted(config) ==
    /\ config.t = "object" /\ config.enabled = Bool(TRUE)
    /\ Parses(config.startTime) /\ Parses(config.endTime)
    /\ DateParse(config.startTime.v) > DateParse(config.endTime.v)

\* C24 as stated: a configuration with startTime after endTime is accepted,
\* and there are clock readings at which getMaintenanceStatus calls it
\* active, as there are for 'not started' and for 'ended'
C24_AsStated ==
    (Answered /\ Inverted(call.config)) =>
        /\ call.valid
        /\ \A verdict \in {ActiveUntilTpl, NotStartedTpl, EndedTpl} :
              \E t1 \in 0..MaxClock : \E t2 \in t1..MaxClock :
                 StatusRun(call.src, t1, t2).status.reason.tpl = verdict

\* C24: a configuration with startTime after endTime is accepted by the
\* validator and each bound is checked on its own, so that no instant is
\* inside the window: the proxy never finds it active, and the status is
\* inactive, 'not started' while now is before startTime and 'ended' from
\* startTime on
C24_InvertedNeverActive ==
    /\ (Gated /\ Inverted(call.config)) => (call.valid /\ ~call.active)
    /\ (Answered /\ Inverted(call.config)) =>
          /\ call.valid
          /\ ~call.inWindow
          /\ ~call.status.active
          /\ call.status.reason =
                IF call.now < DateParse(call.config.startTime.v)
                THEN Reason(NotStartedTpl, call.config.startTime.v)
                ELSE Reason(EndedTpl, call.config.endTime.v)

\* between the end and the start of an inverted window the status is
\* 'not started'
C24_Witness ==
    /\ Answered /\ Inverted(call.config)
    /\ call.now > DateParse(call.config.endTime.v)
    /\ call.now < DateParse(call.config.startTime.v)
    /\ call.status.reason.tpl = NotStartedTpl


\* the bound is a timestamp and now is that very instant
AtBound(bound, t) == Parses(bound) /\ DateParse(bound.v) = t
\* the bound is a timestamp that t has not reached / has passed
Before(bound, t) == Parses(bound) /\ t < DateParse(bound.v)
After(bound, t) == Parses(bound) /\ t > DateParse(bound.v)

\* C25: both bounds belong to the window.  With enabled = true the gate
\* answers true at the instant of startTime unless endTime is already
\* past, and at the instant of endTime unless startTime is still ahead
C25_BoundsInclusive ==
    (Gated /\ call.config.enabled = Bool(TRUE)) =>
        /\ (AtBound(call.config.startTime, call.now)
            /\ ~After(call.config.endTime, call.now)) => call.active
        /\ (AtBound(call.config.endTime, call.now)
            /\ ~Before(call.config.startTime, call.now)) => call.active

\* a window of one instant is active at that instant
C25_Witness ==
    /\ Gated
    /\ call.config.enabled = Bool(TRUE)
    /\ call.config.startTime = Str("T1")
    /\ call.config.endTime = Str("T1")
    /\ call.now = 1
    /\ call.active


Blank(x) == x = Str("")
\* the document with its empty-string bounds taken out
Unblank(doc) ==
    [doc EXCEPT !.startTime = IF Blank(@) THEN Undef ELSE @,
                !.endTime = IF Blank(@) THEN Undef ELSE @]
Unblanked(f) == SourceFile(f.st, Unblank(f.data))
\* the call has read a file that has an empty-string bound
BlankRead == call.pc = "done" /\ call.op # "none" /\ call.src.st = "json"
             /\ (Blank(call.src.data.startTime)
                 \/ Blank(call.src.data.endTime))

\* C29: an empty-string bound is an absent bound.  A file with such a bound
\* passes validation; the gate and the status are, with the same warnings,
\* those of the file without the bound, none of the warnings being about
\* the empty bound; an active status for an empty endTime says 'no end time
\* specified'; and calculateTimeRemaining of it is null, without warning
C29_EmptyBoundIsAbsent ==
    /\ BlankRead =>
          LET g == Unblanked(call.src)
              cfg == g.data
          IN  /\ call.valid
              /\ validateMaintenanceConfig(cfg)
              /\ Blank(call.src.data.startTime)
                    => "Invalid startTime format" \notin call.warned
              /\ Blank(call.src.data.endTime)
                    => "Invalid endTime format" \notin call.warned
              /\ Gated => /\ call.active = ActiveRun(cfg, call.now).ret
                          /\ call.warned = ActiveRun(cfg, call.now).warned
              /\ Answered =>
                    LET s == StatusRun(g, call.now1, call.now).status
                    IN  /\ call.status.active = s.active
                        /\ call.status.reason = s.reason
                        /\ (call.status.active
                            /\ Blank(call.src.data.endTime))
                              => call.status.reason
                                    = Reason(ActiveNoEndTpl, "")
    /\ (calc.pc = "done" /\ Blank(calc.endTime)) =>
          /\ calc.out.isNull
          /\ calc.warned = {}
          /\ calc.out = calculateTimeRemaining(Undef, calc.now)

\* an enabled file with both bounds empty: active, no end time, no
\* countdown, no warning
C29_Witness ==
    /\ BlankRead /\ Answered
    /\ call.src.data.enabled = Bool(TRUE)
    /\ Blank(call.src.data.startTime) /\ Blank(call.src.data.endTime)
    /\ call.status.active
    /\ call.warned = {}
    /\ calc.pc = "done" /\ Blank(calc.endTime) /\ calc.out.isNull


\* C26: a hook instance has at most one interval timer that is set and not
\* cleared, and it is the timer of the latest run of its effect, for the
\* options or the endTime of that run: the timer of an earlier run is gone
\* when the next run sets its own, and an instance that was torn down has
\* no timer left that could fire
C26_OneTimerPerInstance ==
    /\ Cardinality(poll.timers) <= 1
    /\ \A timer \in poll.timers :
          /\ poll.mounted /\ poll.autoPoll
          /\ timer.id = poll.interval
          /\ timer.period = poll.pollInterval
    /\ Cardinality(cd.timers) <= 1
    /\ \A timer \in cd.timers :
          /\ cd.mounted
          /\ timer.id = cd.interval
          /\ timer.endTime = cd.endTime

\* the effect of useMaintenanceStatus has run twice and the one timer there
\* is is that of the second run
C26_Witness ==
    /\ poll.mounted /\ poll.nextId = 3
    /\ poll.timers = {[id |-> 2, period |-> 10000, left |-> 10000]}
    /\ poll.nPolls = 1


\* the step settles a fetch that was issued before the fetch whose response
\* is the stored status
SettlesEarlier ==
    /\ poll.mounted /\ poll'.mounted /\ poll.hasStatus
    /\ \E i \in DOMAIN poll.inflight :
          poll'.inflight = RemoveAt(poll.inflight, i)
    /\ \A i \in DOMAIN poll.inflight :
          poll'.inflight = RemoveAt(poll.inflight, i)
             => (i <= poll.behind /\ poll.inflight[i] # Pending)

\* C27: when fetches of one instance overlap, the response of a fetch
\* issued earlier never replaces the stored response of a fetch issued
\* later, so that what is stored once all have settled is the response of
\* the fetch issued last
C27_LatestIssuedWins ==
    [][SettlesEarlier => poll'.status = poll.status]_vars


\* C28: the one-second timer of a mounted useCountdown does not run for
\* ever: whenever it is set it is cleared again at some later moment,
\* whether its endTime is a timestamp or not
C28_TimerEventuallyCleared ==
    [](cd.timers # {} => <>(cd.timers = {}))

====
